---- MODULE Spec2Model ----
(***************************************************************************)
(* GeoScraper: the Wikimapia crawler (wikimapia_scraper.py), its helpers   *)
(* (utils.py) and the command line entry point (geo_scraper.py).           *)
(*                                                                         *)
(* Text is modelled as sequences of tokens.  A path is a sequence of the   *)
(* tokens "/", "country", "A", "B", "X", "15002", "Arad"; no token is a    *)
(* prefix of another, so a prefix of the token sequence is exactly a       *)
(* prefix of the string (str.startswith).  A URL is a record               *)
(* [netloc, path]; scheme, query and fragment are the same for all URLs    *)
(* of the modelled sites.  An href is a record [netloc, path] where        *)
(* netloc = "" means "no authority given" and a path that does not start   *)
(* with "/" is relative.                                                   *)
(***************************************************************************)
EXTENDS Integers, Sequences, FiniteSets, TLC

\* ------------------------------------------------------------------ bounds
MaxWorkers == 2

\* ------------------------------------------------------------ text helpers
RECURSIVE FlatMap(_, _)
FlatMap(f, s) == IF s = <<>> THEN <<>> ELSE f[Head(s)] \o FlatMap(f, Tail(s))

\* the value of F at e, with e evaluated once
Bind(e, F(_)) == CHOOSE r \in {F(x) : x \in {e}} : TRUE

StartsWith(s, p) == Len(p) <= Len(s) /\ SubSeq(s, 1, Len(p)) = p

Range(s) == {s[i] : i \in 1..Len(s)}

\* str.casefold() on the characters of the modelled names
CaseFoldChar ==
  [c \in {"A", "a", "R", "r", "D", "d", "s", "SZ", "E'", "e'", "e", "acute"} |->
     CASE c = "A" -> <<"a">>
       [] c = "R" -> <<"r">>
       [] c = "D" -> <<"d">>
       [] c = "SZ" -> <<"s", "s">>       \* U+00DF folds to the two letters "ss"
       [] c = "E'" -> <<"e'">>           \* U+00C9 folds to U+00E9
       [] OTHER -> <<c>>]

\* unicodedata.normalize("NFKD", .) on the same characters
NFKDChar ==
  [c \in DOMAIN CaseFoldChar |->
     CASE c = "e'" -> <<"e", "acute">>   \* U+00E9 -> e + U+0301
       [] OTHER -> <<c>>]

normalize_caseless(text) == FlatMap(NFKDChar, FlatMap(CaseFoldChar, text))

caseless_equal(left, right) == normalize_caseless(left) = normalize_caseless(right)

\* ------------------------------------------------------------------- URLs
Url(n, p) == [netloc |-> n, path |-> p]

\* index of the last "/" of a path, 0 if none
RECURSIVE LastSlash(_, _)
LastSlash(p, i) == IF i = 0 THEN 0 ELSE IF p[i] = "/" THEN i ELSE LastSlash(p, i - 1)

\* urllib.parse.urljoin(base, href) for hrefs without dot segments
urljoin(base, href) ==
  IF href.netloc # "" THEN Url(href.netloc, href.path)
  ELSE IF href.path = <<>> THEN base
  ELSE IF Head(href.path) = "/" THEN Url(base.netloc, href.path)
  ELSE Url(base.netloc, SubSeq(base.path, 1, LastSlash(base.path, Len(base.path))) \o href.path)

\* is_base_url that compares the authority only
is_base_url_NetlocOnly(url, baseurl) == url.netloc = baseurl.netloc

is_base_url(url, baseurl) ==
  url.netloc = baseurl.netloc /\ StartsWith(url.path, baseurl.path)

\* 'if path:' of get_linked_urls: an empty href is falsy
HrefTruthy(href) == href.netloc # "" \/ href.path # <<>>

\* the sequence of URLs the generator get_linked_urls(url, soup) yields
\* lines 74-79 for one anchor: the URL it yields, as a sequence of 0 or 1
LinkOf(url, path) ==
  IF HrefTruthy(path) /\ is_base_url(urljoin(url, path), url)
  THEN <<urljoin(url, path)>> ELSE <<>>

RECURSIVE get_linked_urls(_, _)
get_linked_urls(url, a_tags) ==
  IF a_tags = <<>> THEN <<>>
  ELSE LinkOf(url, Head(a_tags)) \o get_linked_urls(url, Tail(a_tags))

CountryPrefix == <<"/", "country", "/">>

can_be_location_page_url(url) == ~StartsWith(url.path, CountryPrefix)

\* --------------------------------------------------------- map coordinates
(* A map href such as '/#lang=en&lat=-14.260057&lon=-170.649948&z=13&m=w' is  *)
(* modelled by the sequence of its key=value parameters; NoMapHref is None.     *)
NoMapHref == <<[k |-> "None", v |-> ""]>>

\* keys in which the regular expression r'^.*?lat' finds the substring 'lat'
ContainsLat(k) == k \in {"lat", "flat"}

\* index of the first parameter whose key contains 'lat', 0 if none
RECURSIVE FirstLat(_, _)
FirstLat(q, i) ==
  IF i > Len(q) THEN 0 ELSE IF ContainsLat(q[i].k) THEN i ELSE FirstLat(q, i + 1)

\* re.sub(r'^.*?lat', '?lat', map_url) followed by urlparse(.).query: without
\* a 'lat' the text stays a fragment and the query is empty
LegalQuery(q) ==
  LET i == FirstLat(q, 1)
  IN IF i = 0 THEN <<>>
     ELSE <<[k |-> "lat", v |-> q[i].v]>> \o SubSeq(q, i + 1, Len(q))

\* the values of key k, in order, blank values dropped (parse_qs)
RECURSIVE ValuesOf(_, _)
ValuesOf(q, k) ==
  IF q = <<>> THEN <<>>
  ELSE (IF Head(q).k = k /\ Head(q).v # "" THEN <<Head(q).v>> ELSE <<>>)
       \o ValuesOf(Tail(q), k)

\* parse_qs and flatten_params: [is_list, items] per key that has a value
FlattenParams(legal) ==
  [k \in {legal[i].k : i \in {j \in 1..Len(legal) : legal[j].v # ""}} |->
     [is_list |-> Len(ValuesOf(legal, k)) # 1, items |-> ValuesOf(legal, k)]]

get_params_from_map_url(map_url) ==
  Bind(LegalQuery(map_url), LAMBDA legal : FlattenParams(legal))

\* float(str) in micro-degrees; a string outside the table raises ValueError
FloatTable ==
  [v \in {"-14.260057", "-170.649948", "31.25", "35.21"} |->
     CASE v = "-14.260057" -> -14260057
       [] v = "-170.649948" -> -170649948
       [] v = "31.25" -> 31250000
       [] v = "35.21" -> 35210000]

NoPoint == [id |-> 0, lon |-> 0, lat |-> 0]

\* float(x) succeeds: x is one string, not a list, and reads as a number
FloatOk(x) == ~x.is_list /\ x.items[1] \in DOMAIN FloatTable

\* get_point_from_map_url that takes 0 for a missing lon
PointOfParams_DefaultLon(map_params, id) ==
  IF "lat" \in DOMAIN map_params /\ FloatOk(map_params["lat"])
  THEN [ok |-> TRUE,
        point |-> [id |-> id,
                   lon |-> IF "lon" \in DOMAIN map_params /\ FloatOk(map_params["lon"])
                           THEN FloatTable[map_params["lon"].items[1]] ELSE 0,
                   lat |-> FloatTable[map_params["lat"].items[1]]]]
  ELSE [ok |-> FALSE, point |-> NoPoint]

\* lines 116-119: the point of the parameters, if lat and lon are there and numbers
PointOfParams(map_params, id) ==
  IF "lat" \in DOMAIN map_params /\ "lon" \in DOMAIN map_params
  THEN IF FloatOk(map_params["lat"]) /\ FloatOk(map_params["lon"])
       THEN [ok |-> TRUE,
             point |-> [id |-> id, lon |-> FloatTable[map_params["lon"].items[1]],
                        lat |-> FloatTable[map_params["lat"].items[1]]]]
       ELSE [ok |-> FALSE, point |-> NoPoint]                \* float() raised, caught
  ELSE [ok |-> FALSE, point |-> NoPoint]

\* Optional[GeoPoint]: [ok, point]; id is the identity of the new object
get_point_from_map_url(map_url, id) ==
  IF map_url = NoMapHref THEN [ok |-> FALSE, point |-> NoPoint]     \* TypeError, caught
  ELSE Bind(get_params_from_map_url(map_url),
            LAMBDA map_params : PointOfParams(map_params, id))

\* ------------------------------------------------------------------ pages
(* A page is the sequence of its top-level elements in document order: a  *)
(* bare anchor [tag |-> "a"] or a list item [tag |-> "li"], each with its *)
(* anchors.  An anchor is [text, has_href, href, q]: href is the          *)
(* attribute read as a link, q the same attribute read as a map href.     *)
Anchor(text, href) == [text |-> text, has_href |-> TRUE, href |-> href, q |-> NoMapHref]
MapAnchor(q) ==
  [text |-> "map", has_href |-> TRUE, href |-> [netloc |-> "", path |-> <<"/">>], q |-> q]
A(href) == [tag |-> "a", a_tags |-> <<Anchor("link", href)>>]
Li(name, href, q) == [tag |-> "li", a_tags |-> <<Anchor(name, href), MapAnchor(q)>>]

\* soup.find_all('a', href=True): the hrefs of all anchors, in document order
RECURSIVE HrefsOf(_)
HrefsOf(as) ==
  IF as = <<>> THEN <<>>
  ELSE (IF Head(as).has_href THEN <<Head(as).href>> ELSE <<>>) \o HrefsOf(Tail(as))

RECURSIVE AllHrefs(_)
AllHrefs(soup) ==
  IF soup = <<>> THEN <<>> ELSE HrefsOf(Head(soup).a_tags) \o AllHrefs(Tail(soup))

\* the GeoLocation of one 'li' tag with its two anchors, as a sequence of 0 or 1
LocationOfPoint(location_fullurl, location_name, map_point) ==
  IF map_point.ok
  THEN <<[url |-> location_fullurl, points |-> <<map_point.point>>,
          data |-> [k \in {"name"} |-> location_name]]>>
  ELSE <<>>

LocationOfLi(url, a_tags, id) ==
  LocationOfPoint(IF a_tags[1].has_href THEN urljoin(url, a_tags[1].href) ELSE url,
                  a_tags[1].text,
                  get_point_from_map_url(IF a_tags[2].has_href THEN a_tags[2].q ELSE NoMapHref,
                                         id))

\* the GeoLocations the generator get_geo_locations(url, soup) yields; every
\* GeoPoint it builds is a new object, numbered from id upwards
RECURSIVE get_geo_locations(_, _, _)
YieldAndGoOn(url, soup, id, yielded) ==
  yielded \o get_geo_locations(url, Tail(soup), id + Len(yielded))

get_geo_locations(url, soup, id) ==
  IF soup = <<>> THEN <<>>
  ELSE IF Head(soup).tag = "li" /\ Len(Head(soup).a_tags) = 2
          /\ Head(soup).a_tags[2].text = "map"
       THEN Bind(LocationOfLi(url, Head(soup).a_tags, id),
                 LAMBDA yielded : YieldAndGoOn(url, soup, id, yielded))
       ELSE YieldAndGoOn(url, soup, id, <<>>)

\* ------------------------------------------------------- SetAsyncioQueue
(* The queue is [items, set_data, unfinished]: the deque and the count of   *)
(* unfinished tasks of asyncio.Queue (unbounded: maxsize = 0) and the set   *)
(* the subclass adds.  On an unbounded queue put() never suspends.          *)
EmptyQueue == [items |-> <<>>, set_data |-> {}, unfinished |-> 0]

put(q, item) ==
  [items |-> Append(q.items, item),
   set_data |-> q.set_data \cup {item},
   unfinished |-> q.unfinished + 1]

\* a get() that leaves the item in set_data
get_NoRemove(q) ==
  [raised |-> FALSE, item |-> Head(q.items), q |-> [q EXCEPT !.items = Tail(q.items)]]

\* get() on a non-empty queue: set.remove raises KeyError on a missing item
get(q) ==
  LET item == Head(q.items)
  IN [raised |-> item \notin q.set_data,
      item |-> item,
      q |-> [q EXCEPT !.items = Tail(q.items), !.set_data = q.set_data \ {item}]]

contains(q, item) == item \in q.set_data

\* asyncio.Queue.task_done: ValueError when called too many times
task_done(q) ==
  IF q.unfinished <= 0 THEN [raised |-> TRUE, q |-> q]
  ELSE [raised |-> FALSE, q |-> [q EXCEPT !.unfinished = q.unfinished - 1]]

\* -------------------------------------------------------- WikimapiaCrawler
\* add_url_to_visit without the 'not in self.urls_to_visit' test
add_url_to_visit_NoPendingCheck(q, visited, url) ==
  IF url \notin visited THEN put(q, url) ELSE q

\* add_url_to_visit without the 'not in self.visited_urls' test
add_url_to_visit_NoVisitedCheck(q, visited, url) ==
  IF ~contains(q, url) THEN put(q, url) ELSE q

add_url_to_visit(q, visited, url) ==
  IF url \notin visited /\ ~contains(q, url) THEN put(q, url) ELSE q

\* 'geo_location not in self.geo_locations': dataclass equality of url, points
\* and data; two GeoPoints are equal only when they are the same object (id)
InStore(store, geo_location) == \E i \in 1..Len(store) : store[i] = geo_location

add_geo_location(store, geo_location) ==
  IF geo_location.points # <<>> /\ ~InStore(store, geo_location)
  THEN Append(store, geo_location) ELSE store

RECURSIVE AddUrls(_, _, _)
AddUrls(q, visited, urls) ==
  IF urls = <<>> THEN q
  ELSE Bind(add_url_to_visit(q, visited, Head(urls)),
            LAMBDA q1 : AddUrls(q1, visited, Tail(urls)))

RECURSIVE AddLocations(_, _)
AddLocations(store, locations) ==
  IF locations = <<>> THEN store
  ELSE Bind(add_geo_location(store, Head(locations)),
            LAMBDA store1 : AddLocations(store1, Tail(locations)))

\* the value of crawl's variable 'url' after 'for url in get_linked_urls(url, soup)':
\* the loop rebinds it to every link it yields
UrlAfterLinkLoop(url, links) == IF links = <<>> THEN url ELSE links[Len(links)]

\* lines 146-147: the second loop of crawl
CrawlLocations(store, id, locations) ==
  [store |-> AddLocations(store, locations), id |-> id + Len(locations)]

\* lines 143-147 given the links the first scan yields
CrawlWithLinks(url, soup, q, visited, store, id, links) ==
  [q |-> AddUrls(q, visited, links),
   r |-> Bind(get_geo_locations(UrlAfterLinkLoop(url, links), soup, id),
              LAMBDA locations : CrawlLocations(store, id, locations))]

\* crawl(url) once download_html has returned soup: [q, r: [store, id]]
crawl(url, soup, q, visited, store, id) ==
  Bind(get_linked_urls(url, AllHrefs(soup)),
       LAMBDA links : CrawlWithLinks(url, soup, q, visited, store, id, links))

\* a finally clause that forgets task_done()
url_handler_finally_NoTaskDone(q, visited, url) ==
  [visited |-> visited \cup {url}, td |-> [raised |-> FALSE, q |-> q]]

\* a finally clause that calls task_done() twice
url_handler_finally_TwiceDone(q, visited, url) ==
  [visited |-> visited \cup {url}, td |-> task_done(task_done(q).q)]

\* the finally clause of url_handler: [visited, td: [raised, q]]
url_handler_finally(q, visited, url) ==
  [visited |-> visited \cup {url}, td |-> task_done(q)]

\* the try and except clauses of url_handler from the return of the fetch;
\* fetched = FALSE when download_html raised: [q, r: [store, id]]
url_handler_try(url, fetched, soup, q, visited, store, id) ==
  IF fetched THEN crawl(url, soup, q, visited, store, id)
  ELSE [q |-> q, r |-> [store |-> store, id |-> id]]

TurnResult(c, f) == [c |-> c, f |-> f]
TurnFinally(c, visited, url) == TurnResult(c, url_handler_finally(c.q, visited, url))

\* a url_handler that marks and acknowledges at the end of the try block instead of
\* in a finally clause: a failed crawl is logged and neither marked nor acknowledged
url_handler_turn_NoFinally(url, fetched, soup, q, visited, store, id) ==
  IF fetched
  THEN Bind(url_handler_try(url, fetched, soup, q, visited, store, id),
            LAMBDA c : TurnFinally(c, visited, url))
  ELSE TurnResult([q |-> q, r |-> [store |-> store, id |-> id]],
                  [visited |-> visited, td |-> [raised |-> FALSE, q |-> q]])

\* one turn of url_handler's loop from the return of the fetch:
\* [c: [q, r: [store, id]], f: [visited, td: [raised, q]]]
url_handler_turn(url, fetched, soup, q, visited, store, id) ==
  Bind(url_handler_try(url, fetched, soup, q, visited, store, id),
       LAMBDA c : TurnFinally(c, visited, url))

\* ------------------------------------------------------------- the site
Href(p) == [netloc |-> "", path |-> p]
FullHref(n, p) == [netloc |-> n, path |-> p]

WIKIMAPIA_START_URL == Url("w", <<"/", "country", "/">>)
uA == Url("w", <<"/", "country", "/", "A", "/">>)
uAX == Url("w", <<"/", "country", "/", "A", "/", "X", "/">>)
uB == Url("w", <<"/", "country", "/", "A", "/", "B", "/">>)
uBX == Url("w", <<"/", "country", "/", "A", "/", "B", "/", "X", "/">>)
uR == Url("w", <<"/", "country", "/", "B", "/">>)
uArad == Url("w", <<"/", "15002", "/", "Arad">>)
uZed == Url("w", <<"/", "15002", "/", "X">>)

P(k, v) == [k |-> k, v |-> v]
qArad == <<P("lang", "en"), P("lat", "31.25"), P("lon", "35.21"), P("z", "13"), P("m", "w")>>
qSamoa == <<P("lang", "en"), P("lat", "-14.260057"), P("lon", "-170.649948"), P("z", "13")>>
qNoLon == <<P("lang", "en"), P("lat", "31.25"), P("z", "13")>>
qLonFirst == <<P("lon", "35.21"), P("lat", "31.25")>>
qTwoLat == <<P("flat", "1"), P("lat", "31.25"), P("lon", "35.21")>>
qNotNumber == <<P("lat", "north"), P("lon", "35.21")>>
qBlank == <<P("lat", ""), P("lon", "35.21")>>

\* the listing of the start page: the anchors under .linkslist, [text, href]
Listing ==
  << [text |-> <<"D">>, href |-> Href(<<>>)],
     [text |-> <<"A", "R", "A", "D">>, href |-> Href(<<"A", "/">>)],
     [text |-> <<"R", "SZ">>, href |-> Href(<<"B", "/">>)],
     [text |-> <<"E'">>, href |-> Href(<<"B", "/">>)] >>

SearchNames ==
  { <<"a", "r", "a", "d">>, <<"r", "s", "s">>, <<"e", "acute">>, <<"d">>, <<"d", "e">> }

\* the parsed document the site serves at a URL; an unknown URL serves a page
\* with no anchors
Page(u) ==
  CASE u = uA -> << A(Href(<<"B", "/">>)),
                    Li("Samoa", Href(<<"X", "/">>), qSamoa),
                    A(Href(<<"B", "/", "X", "/">>)),
                    A(Href(<<"/", "country", "/">>)),
                    A(FullHref("evil", <<"/", "country", "/", "A", "/", "Z">>)) >>
    [] u = uB -> << A(Href(<<"/", "country", "/", "A", "/", "B", "/">>)),
                    A(Href(<<"X", "/">>)),
                    Li("Arad", Href(<<"/", "15002", "/", "Arad">>), qArad) >>
    [] u = uBX -> << Li("Arad", Href(<<"/", "15002", "/", "Arad">>), qArad) >>
    [] u = uAX -> << Li("NoLon", Href(<<"/", "15002", "/", "X">>), qNoLon),
                     Li("TwoLat", Href(<<"/", "15002", "/", "X">>), qTwoLat) >>
    [] u = uR -> << Li("Arad", Href(<<"/", "15002", "/", "Arad">>), qArad),
                    Li("Zed", Href(<<"/", "15002", "/", "X">>), qSamoa),
                    Li("LonFirst", Href(<<"/", "15002", "/", "X">>), qLonFirst),
                    Li("NotNumber", Href(<<"/", "15002", "/", "X">>), qNotNumber),
                    Li("Blank", Href(<<"/", "15002", "/", "X">>), qBlank),
                    A(Href(<<"/", "country", "/", "A", "/">>)) >>
    [] OTHER -> << >>

\* the text of the element with id 'place-description' of the page at u, "" if none
PlaceDescription(u) == IF u = uArad THEN "a town" ELSE ""

\* the URLs whose fetch may fail; a run fixes the set of those that do
FailCandidates == {WIKIMAPIA_START_URL, uA, uB, uBX, uArad}
MaxFailures == 2

\* ------------------------------------------------------------------ state
VARIABLES
  search_name,     \* the name main() passes to run()
  failing,         \* the URLs whose fetch raises (fixed for the run)
  workers_num,     \* WikimapiaCrawler.workers_num
  run_pc,          \* where run()/main() stand: find, join, enrich, done, not_found, fatal
  urls_to_visit,   \* the SetAsyncioQueue
  visited_urls,
  geo_locations,   \* the list of GeoLocation
  next_id,         \* identity the next GeoPoint object gets
  wpc,             \* per url_handler task: none, get, fetch, cancelled, crashed
  wurl,            \* the url a task holds between get() and task_done()
  fetches,         \* download_html calls started, per caller
  enr_next,        \* index of the next location pool.map spawns
  enr_active,      \* indices of the locations whose location_handler awaits its fetch
  output,          \* the file main() writes: [written, features]
  ever_put         \* history: the URLs put() was ever called with

vars == <<search_name, failing, workers_num, run_pc, urls_to_visit, visited_urls,
          geo_locations, next_id, wpc, wurl, fetches, enr_next, enr_active, output,
          ever_put>>

Workers == 1..MaxWorkers
NoUrl == Url("", <<>>)

Init ==
  /\ search_name \in SearchNames
  /\ failing \in {F \in SUBSET FailCandidates : Cardinality(F) <= MaxFailures}
  /\ workers_num \in 1..MaxWorkers
  /\ run_pc = "find"
  /\ urls_to_visit = EmptyQueue
  /\ visited_urls = {}
  /\ geo_locations = <<>>
  /\ next_id = 1
  /\ wpc = [w \in Workers |-> "none"]
  /\ wurl = [w \in Workers |-> NoUrl]
  /\ fetches = [find |-> 0, crawl |-> 0, location |-> 0]
  /\ enr_next = 1
  /\ enr_active = {}
  /\ output = [written |-> FALSE, features |-> <<>>]
  /\ ever_put = {}

\* find_location_in_page that returns the start page instead of raising NotFoundError
find_location_in_page_Fallback(start_url, a_tags, name) ==
  [found |-> TRUE,
   url |-> IF \E i \in 1..Len(a_tags) :
                HrefTruthy(a_tags[i].href) /\ caseless_equal(a_tags[i].text, name)
           THEN urljoin(start_url,
                        a_tags[CHOOSE i \in 1..Len(a_tags) :
                                 /\ HrefTruthy(a_tags[i].href)
                                 /\ caseless_equal(a_tags[i].text, name)
                                 /\ \A j \in 1..(i - 1) :
                                      ~(HrefTruthy(a_tags[j].href)
                                        /\ caseless_equal(a_tags[j].text, name))].href)
           ELSE start_url]

\* find_location_in_page once the start page is there: [found, url]
RECURSIVE find_location_in_page(_, _, _)
find_location_in_page(start_url, a_tags, name) ==
  IF a_tags = <<>> THEN [found |-> FALSE, url |-> NoUrl]
  ELSE IF HrefTruthy(Head(a_tags).href) /\ caseless_equal(Head(a_tags).text, name)
       THEN [found |-> TRUE, url |-> urljoin(start_url, Head(a_tags).href)]
       ELSE find_location_in_page(start_url, Tail(a_tags), name)

\* run() up to its first wait on join(): the search, the seed, the tasks.
\* A failing start page is a fatal error of main(), NotFoundError ends it quietly.
FindLocation ==
  /\ run_pc = "find"
  /\ fetches' = [fetches EXCEPT !.find = @ + 1]
  /\ \E r \in {find_location_in_page(WIKIMAPIA_START_URL, Listing, search_name)} :
        IF WIKIMAPIA_START_URL \in failing
        THEN /\ run_pc' = "fatal"
             /\ UNCHANGED <<urls_to_visit, wpc>>
        ELSE IF ~r.found
        THEN /\ run_pc' = "not_found"
             /\ UNCHANGED <<urls_to_visit, wpc>>
        ELSE /\ run_pc' = "join"
             /\ urls_to_visit' = add_url_to_visit(urls_to_visit, visited_urls, r.url)
             /\ wpc' = [w \in Workers |-> IF w <= workers_num THEN "get" ELSE "none"]
  /\ ever_put' = Range(urls_to_visit'.items)
  /\ UNCHANGED <<search_name, failing, workers_num, visited_urls, geo_locations, next_id,
                 wurl, enr_next, enr_active, output>>

\* a url_handler that calls task_done() right after get(), before the crawl
Get_Acknowledging(w) ==
  /\ wpc[w] = "get"
  /\ urls_to_visit.items # <<>>
  /\ \E g \in {get(urls_to_visit)} :
        /\ urls_to_visit' = task_done(g.q).q
        /\ IF g.raised
           THEN /\ wpc' = [wpc EXCEPT ![w] = "crashed"]
                /\ UNCHANGED <<wurl, fetches>>
           ELSE /\ wpc' = [wpc EXCEPT ![w] = "fetch"]
                /\ wurl' = [wurl EXCEPT ![w] = g.item]
                /\ fetches' = [fetches EXCEPT !.crawl = @ + 1]
  /\ UNCHANGED <<search_name, failing, workers_num, run_pc, visited_urls, geo_locations,
                 next_id, enr_next, enr_active, output, ever_put>>

\* 'url = await self.urls_to_visit.get()' of a task that waits for an item, and the
\* start of crawl(url) up to the await of the fetch
Get(w) ==
  /\ wpc[w] = "get"
  /\ urls_to_visit.items # <<>>
  /\ \E g \in {get(urls_to_visit)} :
        /\ urls_to_visit' = g.q
        /\ IF g.raised
           THEN /\ wpc' = [wpc EXCEPT ![w] = "crashed"]
                /\ UNCHANGED <<wurl, fetches>>
           ELSE /\ wpc' = [wpc EXCEPT ![w] = "fetch"]
                /\ wurl' = [wurl EXCEPT ![w] = g.item]
                /\ fetches' = [fetches EXCEPT !.crawl = @ + 1]
  /\ UNCHANGED <<search_name, failing, workers_num, run_pc, visited_urls, geo_locations,
                 next_id, enr_next, enr_active, output, ever_put>>

\* what a turn of url_handler leaves behind, and where the task stands after it
Settle(w, t, pc, q, url, started) ==
  /\ visited_urls' = t.f.visited
  /\ geo_locations' = t.c.r.store
  /\ next_id' = t.c.r.id
  /\ urls_to_visit' = q
  /\ wpc' = [wpc EXCEPT ![w] = pc]
  /\ wurl' = [wurl EXCEPT ![w] = url]
  /\ fetches' = [fetches EXCEPT !.crawl = @ + started]
  /\ ever_put' = ever_put \cup Range(t.c.q.items)

\* the get() that follows a turn does not suspend when the queue holds an item
NextGet(w, t, g) ==
  IF g.raised THEN Settle(w, t, "crashed", g.q, NoUrl, 0)
  ELSE Settle(w, t, "fetch", g.q, g.item, 1)

LoopBack(w, t) ==
  IF t.f.td.raised THEN Settle(w, t, "crashed", t.f.td.q, NoUrl, 0)
  ELSE IF t.f.td.q.items = <<>> THEN Settle(w, t, "get", t.f.td.q, NoUrl, 0)
  ELSE \E g \in {get(t.f.td.q)} : NextGet(w, t, g)

\* the fetch of a task returns or raises: the rest of crawl(), the except and finally
\* clauses, and the next get()
FetchReturn(w) ==
  /\ wpc[w] = "fetch"
  /\ \E soup \in {Page(wurl[w])} :
       \E t \in {url_handler_turn(wurl[w], wurl[w] \notin failing, soup,
                                   urls_to_visit, visited_urls, geo_locations, next_id)} :
         LoopBack(w, t)
  /\ UNCHANGED <<search_name, failing, workers_num, run_pc, enr_next, enr_active, output>>

\* h.cancel() for the tasks w..workers_num: a task waiting in get() just ends; a
\* task inside the try block runs its finally clause on the CancelledError
AfterFinally(f) == [q |-> f.td.q, visited |-> f.visited]

RECURSIVE CancelHandlers(_, _, _, _, _)
CancelHandlers(w, n, pcs, urls, s) ==
  IF w > n THEN s
  ELSE IF pcs[w] = "fetch"
       THEN Bind(AfterFinally(url_handler_finally(s.q, s.visited, urls[w])),
                 LAMBDA s1 : CancelHandlers(w + 1, n, pcs, urls, s1))
       ELSE CancelHandlers(w + 1, n, pcs, urls, s)

Cancelled(s) == urls_to_visit' = s.q /\ visited_urls' = s.visited

\* a run() without join(), cancel() and gather(): the enrichment starts at once
DrainAndCancel_NoJoin ==
  /\ run_pc = "join"
  /\ run_pc' = "enrich"
  /\ UNCHANGED <<search_name, failing, workers_num, urls_to_visit, visited_urls,
                 geo_locations, next_id, wpc, wurl, fetches, enr_next, enr_active, output,
                 ever_put>>

\* a run() that waits for an empty queue instead of join()
DrainAndCancel_WhenEmpty ==
  /\ run_pc = "join"
  /\ urls_to_visit.items = <<>>
  /\ Cancelled(CancelHandlers(1, workers_num, wpc, wurl,
                              [q |-> urls_to_visit, visited |-> visited_urls]))
  /\ wpc' = [w \in Workers |-> IF wpc[w] \in {"get", "fetch"} THEN "cancelled" ELSE wpc[w]]
  /\ wurl' = [w \in Workers |-> NoUrl]
  /\ run_pc' = "enrich"
  /\ UNCHANGED <<search_name, failing, workers_num, geo_locations, next_id, fetches,
                 enr_next, enr_active, output, ever_put>>

\* join() returns once the count of unfinished tasks is zero; run() then cancels
\* and gathers the tasks and goes on to the enrichment
DrainAndCancel ==
  /\ run_pc = "join"
  /\ urls_to_visit.unfinished = 0
  /\ \E s \in {CancelHandlers(1, workers_num, wpc, wurl,
                                [q |-> urls_to_visit, visited |-> visited_urls])} :
       Cancelled(s)
  /\ wpc' = [w \in Workers |-> IF wpc[w] \in {"get", "fetch"} THEN "cancelled" ELSE wpc[w]]
  /\ wurl' = [w \in Workers |-> NoUrl]
  /\ run_pc' = "enrich"
  /\ UNCHANGED <<search_name, failing, workers_num, geo_locations, next_id, fetches,
                 enr_next, enr_active, output, ever_put>>

\* get_location_page_data once the page is there
get_location_page_data(url) ==
  IF PlaceDescription(url) # "" THEN [k \in {"description"} |-> PlaceDescription(url)]
  ELSE [k \in {} |-> ""]

\* dict |= dict
DictUpdate(d, e) ==
  [k \in DOMAIN d \cup DOMAIN e |-> IF k \in DOMAIN e THEN e[k] ELSE d[k]]

\* location_handler with 'location.data = ...' instead of 'location.data |= ...'
location_handler_Assign(location, fetched) ==
  IF fetched THEN [location EXCEPT !.data = get_location_page_data(location.url)]
  ELSE location

\* location_handler that drops the metadata of a location whose fetch fails
location_handler_ClearOnFailure(location, fetched) ==
  IF fetched
  THEN [location EXCEPT !.data = DictUpdate(location.data, get_location_page_data(location.url))]
  ELSE [location EXCEPT !.data = get_location_page_data(location.url)]

\* location_handler from the return of its fetch
location_handler(location, fetched) ==
  IF fetched
  THEN [location EXCEPT !.data = DictUpdate(location.data, get_location_page_data(location.url))]
  ELSE location

\* a pool.map without a size: every location_handler starts at once
EnrichSpawn_Unbounded ==
  /\ run_pc = "enrich"
  /\ enr_next <= Len(geo_locations)
  /\ enr_next' = enr_next + 1
  /\ IF can_be_location_page_url(geo_locations[enr_next].url)
     THEN /\ enr_active' = enr_active \cup {enr_next}
          /\ fetches' = [fetches EXCEPT !.location = @ + 1]
     ELSE UNCHANGED <<enr_active, fetches>>
  /\ UNCHANGED <<search_name, failing, workers_num, run_pc, urls_to_visit, visited_urls,
                 geo_locations, next_id, wpc, wurl, output, ever_put>>

\* pool.map starts location_handler for the next location when fewer than
\* workers_num of them are running; a handler of a listing URL ends at once
EnrichSpawn ==
  /\ run_pc = "enrich"
  /\ enr_next <= Len(geo_locations)
  /\ Cardinality(enr_active) < workers_num
  /\ enr_next' = enr_next + 1
  /\ IF can_be_location_page_url(geo_locations[enr_next].url)
     THEN /\ enr_active' = enr_active \cup {enr_next}
          /\ fetches' = [fetches EXCEPT !.location = @ + 1]
     ELSE UNCHANGED <<enr_active, fetches>>
  /\ UNCHANGED <<search_name, failing, workers_num, run_pc, urls_to_visit, visited_urls,
                 geo_locations, next_id, wpc, wurl, output, ever_put>>

\* the fetch of a location_handler returns or raises
EnrichReturn(i) ==
  /\ run_pc = "enrich"
  /\ i \in enr_active
  /\ enr_active' = enr_active \ {i}
  /\ geo_locations' =
       [geo_locations EXCEPT ![i] = location_handler(@, @.url \notin failing)]
  /\ UNCHANGED <<search_name, failing, workers_num, run_pc, urls_to_visit, visited_urls,
                 next_id, wpc, wurl, fetches, enr_next, output, ever_put>>

\* build_geojson with Point((lat, lon))
build_geojson_LatLon(locations) ==
  [i \in 1..Len(locations) |->
     [geometry |-> <<locations[i].points[1].lat, locations[i].points[1].lon>>,
      properties |-> locations[i].data]]

RECURSIVE build_geojson(_)
build_geojson(locations) ==
  IF locations = <<>> THEN <<>>
  ELSE LET location == Head(locations)
       IN (IF location.points # <<>>
           THEN <<[geometry |-> <<location.points[1].lon, location.points[1].lat>>,
                   properties |-> location.data]>>
           ELSE <<>>) \o build_geojson(Tail(locations))

\* pool.map is over: run() returns the feature collection and main() writes it
Finish ==
  /\ run_pc = "enrich"
  /\ enr_next > Len(geo_locations)
  /\ enr_active = {}
  /\ run_pc' = "done"
  /\ output' = [written |-> TRUE, features |-> build_geojson(geo_locations)]
  /\ UNCHANGED <<search_name, failing, workers_num, urls_to_visit, visited_urls,
                 geo_locations, next_id, wpc, wurl, fetches, enr_next, enr_active, ever_put>>

Next ==
  \/ FindLocation
  \/ \E w \in Workers : Get(w)
  \/ \E w \in Workers : FetchReturn(w)
  \/ DrainAndCancel
  \/ EnrichSpawn
  \/ \E i \in 1..Len(geo_locations) : EnrichReturn(i)
  \/ Finish

Spec == Init /\ [][Next]_vars

\* the event loop runs every task that can run, and every fetch returns or raises
FairSpec == Spec /\ WF_vars(Next)

\* ------------------------------------------- the queue class on its own
(* SetAsyncioQueue used directly through put() and get(), as its docstring  *)
(* allows: a producer puts any of a few URLs, a consumer gets an item and   *)
(* acknowledges it.  wpc[1] = "crashed" records a get() that raised.         *)
MaxQueue == 3
QueueUrls == {uA, uB, uBX}

QueueInit ==
  /\ search_name = <<"d", "e">>
  /\ failing = {}
  /\ workers_num = 1
  /\ run_pc = "find"
  /\ urls_to_visit = EmptyQueue
  /\ visited_urls = {}
  /\ geo_locations = <<>>
  /\ next_id = 1
  /\ wpc = [w \in Workers |-> "none"]
  /\ wurl = [w \in Workers |-> NoUrl]
  /\ fetches = [find |-> 0, crawl |-> 0, location |-> 0]
  /\ enr_next = 1
  /\ enr_active = {}
  /\ output = [written |-> FALSE, features |-> <<>>]
  /\ ever_put = {}

\* await queue.put(item)
QueuePut(item) ==
  /\ wpc[1] # "crashed"
  /\ Len(urls_to_visit.items) < MaxQueue
  /\ urls_to_visit' = put(urls_to_visit, item)
  /\ ever_put' = ever_put \cup {item}
  /\ UNCHANGED <<search_name, failing, workers_num, run_pc, visited_urls, geo_locations,
                 next_id, wpc, wurl, fetches, enr_next, enr_active, output>>

\* item = await queue.get(); queue.task_done()
QueueGet ==
  /\ wpc[1] # "crashed"
  /\ urls_to_visit.items # <<>>
  /\ \E g \in {get(urls_to_visit)} :
        IF g.raised
        THEN urls_to_visit' = g.q /\ wpc' = [wpc EXCEPT ![1] = "crashed"]
        ELSE urls_to_visit' = task_done(g.q).q /\ wpc' = wpc
  /\ UNCHANGED <<search_name, failing, workers_num, run_pc, visited_urls, geo_locations,
                 next_id, wurl, fetches, enr_next, enr_active, output, ever_put>>

QueueNext == (\E item \in QueueUrls : QueuePut(item)) \/ QueueGet

QueueSpec == QueueInit /\ [][QueueNext]_vars

\* ================================================================ claims
\* the URL run() seeds the queue with
Seed == find_location_in_page(WIKIMAPIA_START_URL, Listing, search_name).url

Pending == Range(urls_to_visit.items)
InFlight == {w \in Workers : wpc[w] = "fetch"}

\* C1: in every reachable state no URL is both pending in urls_to_visit and a
\* member of visited_urls.
C1_NeverPendingAndVisited == Pending \cap visited_urls = {}

\* C2: in every state of the store no two Locations have the same identity URL.
C2_UniqueIdentityUrl ==
  \A i, j \in 1..Len(geo_locations) :
    i # j => geo_locations[i].url # geo_locations[j].url

\* C3: under every interleaving a URL never occurs more than once in the frontier
\* queue at the same time.
C3_NoDuplicatePending ==
  \A i, j \in 1..Len(urls_to_visit.items) :
    i # j => urls_to_visit.items[i] # urls_to_visit.items[j]

\* C3 witness: both pages that link to /country/A/B/X/ have been crawled while it
\* was pending, and it is pending once.
C3_Witness ==
  /\ uA \in visited_urls /\ uB \in visited_urls
  /\ uA \notin failing /\ uB \notin failing
  /\ uBX \in Pending

\* C4: when an enrichment fetch begins the frontier queue is empty and no task
\* holds an unacknowledged URL, and once an enrichment fetch has begun no
\* discovery fetch starts.
C4_EnrichmentAfterDiscovery ==
  [][ /\ fetches'.location > fetches.location =>
           /\ urls_to_visit.items = <<>>
           /\ urls_to_visit.unfinished = 0
           /\ InFlight = {}
           /\ \A w \in Workers : wurl[w] = NoUrl
      /\ fetches.location > 0 => fetches'.crawl = fetches.crawl ]_vars

\* C4 witness: an enrichment fetch has begun after two tasks made several
\* discovery fetches.
C4_Witness == fetches.location > 0 /\ fetches.crawl > 2 /\ workers_num = 2

\* what is queued or held by a task, against the count of unfinished tasks
Balance(q, pcs) ==
  q.unfinished - (Len(q.items) + Cardinality({w \in Workers : pcs[w] = "fetch"}))

\* C5: whenever the crawl of a dequeued URL ends, by success or by exception, the
\* task has added the URL to visited_urls and acknowledged exactly one queue item,
\* and it is back at dequeuing (waiting in get() or fetching the next URL).
C5_MarkAndAcknowledgeOnce ==
  [][ \A w \in Workers :
        FetchReturn(w) =>
          /\ wurl[w] \in visited_urls'
          /\ Balance(urls_to_visit', wpc') = Balance(urls_to_visit, wpc)
          /\ Balance(urls_to_visit, wpc) = 0
          /\ wpc'[w] \in {"get", "fetch"} ]_vars

\* C5 witness: the only task has crawled /country/A/B/, whose fetch failed, and now
\* fetches the next URL.
C5_Witness ==
  /\ workers_num = 1
  /\ uB \in failing /\ uB \in visited_urls
  /\ wpc[1] = "fetch" /\ wurl[1] = uBX

\* the in-scope links of the page at u, none when its fetch fails
LinksOf(u) ==
  IF u \in failing THEN {} ELSE Range(get_linked_urls(u, AllHrefs(Page(u))))

\* the URLs reachable from S through in-scope links of pages whose fetch succeeds
RECURSIVE ReachFrom(_)
Grow(S, T) == IF T = S THEN S ELSE ReachFrom(T)
ReachFrom(S) == Grow(S, S \cup UNION {LinksOf(u) : u \in S})

\* the name and first point of a location or feature
NamedPoint(name, lon, lat) == <<name, lon, lat>>

\* the name+map pairs with a valid point on the page at u
PairsOn(u) ==
  {NamedPoint(l.data["name"], l.points[1].lon, l.points[1].lat) :
     l \in Range(get_geo_locations(u, Page(u), 1))}

FeaturePairs ==
  {NamedPoint(f.properties["name"], f.geometry[1], f.geometry[2]) :
     f \in {g \in Range(output.features) : "name" \in DOMAIN g.properties}}

\* C6: at the end of the run the feature collection holds every location found on
\* every successfully fetched page that is reachable from the seed through
\* in-scope links of successfully fetched pages, whichever fetches failed.
C6_FailureIsLocal ==
  run_pc = "done" =>
    \A u \in ReachFrom({Seed}) \ failing : PairsOn(u) \subseteq FeaturePairs

\* C6 witness: the fetch of /country/A/B/X/ failed and the run ended with the
\* locations of /country/A/ and /country/A/B/ in the feature collection.
C6_Witness ==
  /\ run_pc = "done"
  /\ uBX \in failing /\ uBX \in visited_urls
  /\ NamedPoint("Arad", 35210000, 31250000) \in FeaturePairs
  /\ NamedPoint("Samoa", -170649948, -14260057) \in FeaturePairs

\* C7: under fair scheduling, once run() waits on join() the run ends: the queue
\* is drained, every task has ended cancelled and the feature collection is
\* returned and written.
C7_RunTerminates ==
  (run_pc = "join") ~>
     (/\ run_pc = "done"
      /\ urls_to_visit.items = <<>> /\ urls_to_visit.unfinished = 0
      /\ \A w \in 1..workers_num : wpc[w] = "cancelled"
      /\ output.written)

\* C7 witness: a run that ended with an empty feature collection.
C7_Witness ==
  run_pc = "done" /\ output.written /\ output.features = <<>> /\ visited_urls # {}

\* no anchor of the listing with a link has the search name as its text
NoAnchorMatches ==
  \A i \in 1..Len(Listing) :
    ~(HrefTruthy(Listing[i].href) /\ caseless_equal(Listing[i].text, search_name))

\* C8: if the start page was fetched and no anchor matches, then in every state
\* after the search the run has ended with NotFound: the queue was never seeded,
\* no task exists, no discovery or enrichment fetch was made and nothing is written.
C8_NotFoundIsTerminal ==
  (run_pc # "find" /\ NoAnchorMatches /\ WIKIMAPIA_START_URL \notin failing) =>
    /\ run_pc = "not_found"
    /\ urls_to_visit = EmptyQueue
    /\ \A w \in Workers : wpc[w] = "none"
    /\ fetches.crawl = 0 /\ fetches.location = 0
    /\ visited_urls = {} /\ geo_locations = <<>>
    /\ ~output.written

\* C8 witness: the search for a name that is on no anchor ended with NotFound.
C8_Witness == run_pc = "not_found" /\ search_name = <<"d", "e">> /\ fetches.find = 1

InSubtree(u, root) == u.netloc = root.netloc /\ StartsWith(u.path, root.path)

\* C9: every URL that is pending, held by a task or visited has the authority of
\* the seed and a path that starts with the seed's path, and every link taken from
\* a crawled page has that page's authority and a path that starts with its path.
C9_StaysInSubtree ==
  /\ \A u \in Pending \cup urls_to_visit.set_data \cup visited_urls
              \cup {wurl[w] : w \in InFlight} : InSubtree(u, Seed)
  /\ \A u \in visited_urls : \A l \in LinksOf(u) : InSubtree(l, u)

\* C9 witness: pages with links upward and to another host have been crawled and
\* the crawl has reached the deepest page.
C9_Witness ==
  /\ Seed = uA /\ uA \notin failing
  /\ {uA, uB, uBX} \subseteq visited_urls

\* the locations crawl() takes from the page at u: identity URL, name and point
LocationValue(l) == <<l.url, l.data["name"], l.points[1].lon, l.points[1].lat>>

LocationsOn(u) ==
  {LocationValue(l) :
     l \in Range(crawl(u, Page(u), EmptyQueue, {}, <<>>, 1).r.store)}

Occurrences(s, u) == Cardinality({i \in 1..Len(s) : s[i] = u})

\* C11: whatever is put, the queue holds every URL at most once (a put() of a
\* pending URL is a no-op) and no get() fails.
C11_PutOfPendingIsNoOp ==
  /\ \A u \in QueueUrls : Occurrences(urls_to_visit.items, u) <= 1
  /\ wpc[1] # "crashed"

\* the positions of the store whose URL has the shape of a location page
PlacePages(locations) ==
  {i \in 1..Len(locations) : can_be_location_page_url(locations[i].url)}

\* the Location at position i keeps its URL and its points, and its name
SameButData(i) ==
  /\ geo_locations'[i].url = geo_locations[i].url
  /\ geo_locations'[i].points = geo_locations[i].points
  /\ "name" \in DOMAIN geo_locations'[i].data
  /\ geo_locations'[i].data["name"] = geo_locations[i].data["name"]

\* the enrichment of position i found nothing: the fetch fails or there is no field
NothingFetched(i) ==
  \/ geo_locations[i].url \in failing
  \/ PlaceDescription(geo_locations[i].url) = ""

\* C12: in every step of the enrichment the store keeps its length, order, URLs,
\* points and names; a Location whose fetch fails or yields no field keeps exactly
\* its metadata; and when the batch ends every Location with a location-page URL
\* has had its attempt, whatever failed.
C12_EnrichmentFailuresAreLocal ==
  [][run_pc = "enrich" =>
       /\ Len(geo_locations') = Len(geo_locations)
       /\ \A i \in 1..Len(geo_locations) :
            /\ SameButData(i)
            /\ NothingFetched(i) => geo_locations'[i].data = geo_locations[i].data
       /\ run_pc' = "done" =>
            fetches.location = Cardinality(PlacePages(geo_locations))]_vars

\* a finished batch in which one attempt failed and a later one found no field
C12_Witness ==
  /\ run_pc = "done"
  /\ \E i, j \in 1..Len(geo_locations) :
       /\ i < j
       /\ can_be_location_page_url(geo_locations[i].url)
       /\ geo_locations[i].url \in failing
       /\ DOMAIN geo_locations[i].data = {"name"}
       /\ geo_locations[j].url \notin failing
       /\ can_be_location_page_url(geo_locations[j].url)
       /\ PlaceDescription(geo_locations[j].url) = ""
       /\ DOMAIN geo_locations[j].data = {"name"}

\* C13: at most workers_num fetches are in flight at any moment: at most
\* workers_num url_handler tasks await a page during the discovery, at most
\* workers_num location_handler tasks during the enrichment, and the two phases
\* never overlap.
C13_FetchesBoundedByWorkers ==
  /\ Cardinality(InFlight) <= workers_num
  /\ Cardinality(enr_active) <= workers_num
  /\ Cardinality(InFlight) + Cardinality(enr_active) <= workers_num
  /\ InFlight # {} => run_pc = "join"
  /\ enr_active # {} => run_pc = "enrich"

\* the pool is full while a further location page waits for its turn
C13_Witness ==
  /\ run_pc = "enrich"
  /\ Cardinality(enr_active) = workers_num
  /\ enr_next <= Len(geo_locations)
  /\ can_be_location_page_url(geo_locations[enr_next].url)

\* the feature the collection must hold for the stored Location l
FeatureOf(l) ==
  [geometry |-> <<l.points[1].lon, l.points[1].lat>>, properties |-> l.data]

\* C14: the collection main() writes holds one feature per Location of the final
\* store, in store order: its geometry is (lon, lat) of the Location's first point
\* and its properties are the Location's metadata, name included.  The target page
\* /country/B/, with two valid name+map pairs and no link in scope, gives exactly
\* two features: Arad at (35.21, 31.25) and Zed at (-170.649948, -14.260057).
C14_OneFeaturePerLocation ==
  output.written =>
    /\ Len(output.features) = Len(geo_locations)
    /\ \A i \in 1..Len(geo_locations) :
         /\ output.features[i] = FeatureOf(geo_locations[i])
         /\ "name" \in DOMAIN output.features[i].properties
    /\ (Seed = uR /\ uR \notin failing) =>
         /\ Len(output.features) = 2
         /\ output.features[1].properties["name"] = "Arad"
         /\ output.features[1].geometry = <<35210000, 31250000>>
         /\ output.features[2].properties["name"] = "Zed"
         /\ output.features[2].geometry = <<-170649948, -14260057>>

\* the collection of the two-pair target page is written
C14_Witness ==
  /\ output.written
  /\ Seed = uR
  /\ Len(output.features) = 2

\* the pages of the site that hold name+map pairs
SitePages == {uA, uB, uBX, uAX, uR}

\* the map link q gives the key a value that reads as a number
HasNumber(q, key) == \E i \in 1..Len(q) : q[i].k = key /\ q[i].v \in DOMAIN FloatTable

\* the names of the pairs of the site whose map link lacks lat or lon, or gives
\* one of them a value that is no number
UnusableNames ==
  UNION {{li.a_tags[1].text : li \in {t \in Range(Page(u)) :
                                        /\ t.tag = "li"
                                        /\ ~(HasNumber(t.a_tags[2].q, "lat") /\
                                             HasNumber(t.a_tags[2].q, "lon"))}} :
         u \in SitePages}

\* the numbers the map links of the site can give
Numbers == {FloatTable[v] : v \in DOMAIN FloatTable}

C16_DrainOnlyWhenAcknowledged ==
  /\ [](/\ Balance(urls_to_visit, wpc) = 0
        /\ urls_to_visit.unfinished >= 0
        /\ \A w \in Workers : wpc[w] # "crashed")
  /\ [][(run_pc = "join" /\ run_pc' # "join") =>
          /\ urls_to_visit.items = <<>>
          /\ InFlight = {}
          /\ urls_to_visit.unfinished = 0]_vars

\* join() is about to return after two tasks have crawled several pages
C16_Witness ==
  /\ run_pc = "join"
  /\ workers_num = 2
  /\ urls_to_visit.unfinished = 0
  /\ Cardinality(visited_urls) >= 3
  /\ fetches.crawl > Cardinality(visited_urls)

\* the URLs the crawl of task w puts into the queue when its fetch returns
Enqueued(w) ==
  LET q == url_handler_try(wurl[w], wurl[w] \notin failing, Page(wurl[w]), urls_to_visit,
                           visited_urls, geo_locations, next_id).q
  IN {q.items[i] : i \in (Len(urls_to_visit.items) + 1)..Len(q.items)}

\* C17: visited_urls only grows; a URL that is in visited_urls is never put into
\* the queue; and a URL that was put before is put again only while a task that
\* dequeued it has not yet marked it visited.
C17_NoEnqueueOfVisited ==
  [][/\ visited_urls \subseteq visited_urls'
     /\ ever_put \subseteq ever_put'
     /\ (ever_put' \ ever_put) \cap visited_urls = {}
     /\ \A w \in Workers :
          FetchReturn(w) =>
            \A u \in Enqueued(w) :
              /\ u \notin visited_urls
              /\ u \in ever_put => \E x \in InFlight : wurl[x] = u]_vars

\* a URL is pending again while a task that dequeued it earlier still fetches it
C17_Witness ==
  \E w \in InFlight :
    /\ wurl[w] \in Pending
    /\ wurl[w] \notin visited_urls
    /\ wurl[w] \in ever_put

\* the Locations on the page at u with their links resolved relative to u
ResolvedOn(u) == {LocationValue(l) : l \in Range(get_geo_locations(u, Page(u), 1))}

\* C18: the identity URL of every stored Location is its location link resolved
\* relative to the URL of the page it was extracted from, also when that page
\* holds links in scope.
C18_ResolvedAgainstOwnPage ==
  \A i \in 1..Len(geo_locations) :
    \E u \in visited_urls \ failing : LocationValue(geo_locations[i]) \in ResolvedOn(u)

\* C19: at every suspension point of a run the membership set of the queue is
\* exactly the set of the URLs the queue holds, so 'url in urls_to_visit' is exact,
\* and the removal in get() finds its element: no get() raises.
C19_SetDataIsQueueContent ==
  /\ urls_to_visit.set_data = Range(urls_to_visit.items)
  /\ \A u \in ever_put : contains(urls_to_visit, u) <=> u \in Pending
  /\ urls_to_visit.items # <<>> => ~get(urls_to_visit).raised
  /\ \A w \in Workers : wpc[w] # "crashed"

\* several URLs are pending after some puts and gets, while a task fetches
C19_Witness ==
  /\ run_pc = "join"
  /\ Len(urls_to_visit.items) >= 2
  /\ InFlight # {}
  /\ visited_urls # {}
  /\ ever_put \ Pending # {}

\* C20: when run() cancels the tasks, each of them waits in get() and holds no
\* URL: the cancellation ends no fetch and runs no finally clause, and every URL
\* that was ever put has been marked visited and acknowledged.
C20_CancelFindsTasksIdle ==
  [][(run_pc = "join" /\ run_pc' # "join") =>
       /\ \A w \in 1..workers_num :
            wpc[w] = "get" /\ wurl[w] = NoUrl /\ wpc'[w] = "cancelled"
       /\ visited_urls' = visited_urls
       /\ urls_to_visit' = urls_to_visit
       /\ ever_put \subseteq visited_urls
       /\ urls_to_visit.unfinished = 0]_vars

\* two tasks have been cancelled after a crawl of several pages
C20_Witness ==
  /\ run_pc = "enrich"
  /\ enr_next = 1
  /\ workers_num = 2
  /\ \A w \in 1..workers_num : wpc[w] = "cancelled"
  /\ Cardinality(visited_urls) >= 3

====
